---- MODULE Spec2Model ----
(***************************************************************************)
(* Daily Grace (src/Bibleverse.py): one Streamlit script run per render    *)
(* cycle.  main() loads the session's preferences, get_spiritual_content   *)
(* builds a prompt, calls the generative API, strips code fences from the  *)
(* answer and decodes it with json.loads (falling back to a static record  *)
(* when that raises), main() displays four fields and renders the sidebar, *)
(* whose button overwrites the stored preferences.                         *)
(*                                                                         *)
(* Texts are TLA+ strings handled character by character.  Python values   *)
(* are tagged records so that values of different Python types can be      *)
(* compared: None, str, int, float (kept as its lexeme), bool, list, dict. *)
(***************************************************************************)
EXTENDS Integers, Sequences, FiniteSets, TLC

VARIABLES
    api_key,         \* os.getenv("GEMINI_API_KEY"), read as each script run starts (line 10)
    session_state,   \* st.session_state: a dict, here with at most the key "preferences"
    clock,           \* the system clock, in days after 2024-12-30
    pc,              \* position of the current script run inside main()
    error,           \* the exception that ended the current run, "none" if none
    preferences,     \* main's local `preferences` (line 96)
    current_date,    \* get_spiritual_content's locals
    current_day,
    prompt,
    response,
    content,         \* main's local `content` (line 99)
    page,            \* the content fields st.write has put on the page in this run (lines 107-116)
    sidebar,         \* the state of the sidebar rendered in this run
    last_saved       \* history: the argument of the latest save_preferences call

vars == <<api_key, session_state, clock, pc, error, preferences, current_date, current_day,
          prompt, response, content, page, sidebar, last_saved>>

(***************************************************************************)
(* Python values                                                           *)
(***************************************************************************)
PyNone == [none |-> TRUE]
PyStr(s) == [str |-> s]
PyInt(n) == [int |-> n]
PyFloat(lexeme) == [float |-> lexeme]
PyBool(b) == [bool |-> b]
PyList(q) == [list |-> q]
PyDict(f) == [dict |-> f]

IsDict(v) == "dict" \in DOMAIN v

EmptyDict == [k \in {} |-> PyNone]

\* bool(v): None, "", 0, False, [] and {} are falsy (a float's lexeme is not
\* evaluated: no float reaches a truth test in this program)
Truthy(v) ==
    IF "none" \in DOMAIN v THEN FALSE
    ELSE IF "str" \in DOMAIN v THEN v.str # ""
    ELSE IF "int" \in DOMAIN v THEN v.int # 0
    ELSE IF "bool" \in DOMAIN v THEN v.bool
    ELSE IF "list" \in DOMAIN v THEN v.list # <<>>
    ELSE IF "dict" \in DOMAIN v THEN DOMAIN v.dict # {}
    ELSE TRUE

\* a or b
PyOr(a, b) == IF Truthy(a) THEN a ELSE b

\* d.get(key, default) on a dict d (given as its function)
DictGet(d, key, default) == IF key \in DOMAIN d THEN d[key] ELSE default

(***************************************************************************)
(* str methods                                                             *)
(***************************************************************************)
Char(s, i) == SubSeq(s, i, i)

\* text[n:] and text[:-n] for n > 0
SliceFrom(s, n) == SubSeq(s, n + 1, Len(s))
SliceDropLast(s, n) == SubSeq(s, 1, Len(s) - n)

StartsWith(s, p) == Len(s) >= Len(p) /\ SubSeq(s, 1, Len(p)) = p
EndsWith(s, p) == Len(s) >= Len(p) /\ SubSeq(s, Len(s) - Len(p) + 1, Len(s)) = p

\* the whitespace str.strip() removes, among the characters of the modelled texts
PyWhitespace == {" ", "\t", "\n", "\r", "\f"}

RECURSIVE LStrip(_)
LStrip(s) == IF Len(s) > 0 /\ Char(s, 1) \in PyWhitespace THEN LStrip(SliceFrom(s, 1)) ELSE s

RECURSIVE RStrip(_)
RStrip(s) ==
    IF Len(s) > 0 /\ Char(s, Len(s)) \in PyWhitespace THEN RStrip(SliceDropLast(s, 1)) ELSE s

Strip(s) == RStrip(LStrip(s))

\* sep.join(items) for a list of str values
RECURSIVE Join(_, _)
Join(sep, items) ==
    IF items = <<>> THEN ""
    ELSE IF Len(items) = 1 THEN items[1].str
    ELSE items[1].str \o sep \o Join(sep, Tail(items))

\* sub in s
Contains(s, sub) ==
    \E i \in 1..(Len(s) - Len(sub) + 1) : SubSeq(s, i, i + Len(sub) - 1) = sub

\* SANY accepts no backtick inside a string: the character "^", which occurs in
\* no other modelled text, stands for it
Backtick == "^"

(***************************************************************************)
(* json.loads (CPython's json.decoder / json.scanner, strict mode)         *)
(***************************************************************************)
JsonWhitespace == {" ", "\t", "\n", "\r"}
DigitChars == {"0", "1", "2", "3", "4", "5", "6", "7", "8", "9"}
DigitValue(c) == CHOOSE d \in 0..9 : Char("0123456789", d + 1) = c

\* characters below 0x20, which a strict JSON string may not contain raw
ControlChars == {"\t", "\n", "\r", "\f"}

\* the result of a scan: the value and the index after it, or a failure
\* (JSONDecodeError / StopIteration)
ScanOk(v, i) == [ok |-> TRUE, val |-> v, next |-> i]
ScanFail == [ok |-> FALSE, val |-> PyNone, next |-> 0]

RECURSIVE SkipWhitespace(_, _)
SkipWhitespace(s, i) ==
    IF i <= Len(s) /\ Char(s, i) \in JsonWhitespace THEN SkipWhitespace(s, i + 1) ELSE i

\* the one-character escapes \" \\ \/ \b \f \n \r \t
IsEscape(e) == e \in {"\"", "\\", "/", "b", "f", "n", "r", "t"}

HexChars ==
    {"0", "1", "2", "3", "4", "5", "6", "7", "8", "9",
     "a", "b", "c", "d", "e", "f", "A", "B", "C", "D", "E", "F"}
HexValue(c) ==
    CHOOSE d \in 0..15 :
        Char("0123456789abcdef", d + 1) = c \/ Char("0123456789ABCDEF", d + 1) = c
HexChar(d) == Char("0123456789abcdef", d + 1)

\* the characters U+0020 to U+007E in order; Backtick stands at U+0060
AsciiPrintable ==
    " !\"#$%&'()*+,-./0123456789:;<=>?@ABCDEFGHIJKLMNOPQRSTUVWXYZ[\\]^_"
    \o Backtick \o "abcdefghijklmnopqrstuvwxyz{|}~"

\* the character (UTF-16 unit) of code n as a decoded string holds it.  A TLA+
\* string holds tab, newline, form feed, carriage return and the printable ASCII
\* characters; any other unit, and U+005E whose character stands for the backtick,
\* is held as the six characters of its lower-case \uXXXX escape (the two units
\* of a surrogate pair side by side)
CodeUnit(n) ==
    CASE n = 9 -> "\t"
      [] n = 10 -> "\n"
      [] n = 12 -> "\f"
      [] n = 13 -> "\r"
      [] n >= 32 /\ n <= 126 /\ n # 94 -> Char(AsciiPrintable, n - 31)
      [] OTHER -> "\\u" \o HexChar(n \div 4096) \o HexChar((n \div 256) % 16)
                  \o HexChar((n \div 16) % 16) \o HexChar(n % 16)

Unescape(e) ==
    CASE e = "b" -> CodeUnit(8)
      [] e = "f" -> "\f"
      [] e = "n" -> "\n"
      [] e = "r" -> "\r"
      [] e = "t" -> "\t"
      [] OTHER -> e

\* \uXXXX at i (the index of the u): four hexadecimal digits follow
IsUnicodeEscape(s, i) ==
    /\ i + 4 <= Len(s)
    /\ Char(s, i) = "u"
    /\ \A k \in 1..4 : Char(s, i + k) \in HexChars

UnicodeEscapeValue(s, i) ==
    4096 * HexValue(Char(s, i + 1)) + 256 * HexValue(Char(s, i + 2))
    + 16 * HexValue(Char(s, i + 3)) + HexValue(Char(s, i + 4))

\* scanstring (strict): i is the index after the opening quote
RECURSIVE ScanString(_, _, _)
ScanString(s, i, acc) ==
    IF i > Len(s) THEN ScanFail
    ELSE IF Char(s, i) = "\"" THEN ScanOk(PyStr(acc), i + 1)
    ELSE IF Char(s, i) = "\\" THEN
        IF i + 1 <= Len(s) /\ IsEscape(Char(s, i + 1))
        THEN ScanString(s, i + 2, acc \o Unescape(Char(s, i + 1)))
        ELSE IF IsUnicodeEscape(s, i + 1)
        THEN ScanString(s, i + 6, acc \o CodeUnit(UnicodeEscapeValue(s, i + 1)))
        ELSE ScanFail
    ELSE IF Char(s, i) \in ControlChars THEN ScanFail
    ELSE ScanString(s, i + 1, acc \o Char(s, i))

\* the index after the run of digits that starts at i
RECURSIVE SkipDigits(_, _)
SkipDigits(s, i) ==
    IF i <= Len(s) /\ Char(s, i) \in DigitChars THEN SkipDigits(s, i + 1) ELSE i

RECURSIVE DigitsValue(_, _, _, _)
DigitsValue(s, i, j, acc) ==
    IF i >= j THEN acc ELSE DigitsValue(s, i + 1, j, 10 * acc + DigitValue(Char(s, i)))

\* NUMBER_RE = (-?(?:0|[1-9]\d*))(\.\d+)?([eE][-+]?\d+)?
ScanNumber(s, i) ==
    LET neg == i <= Len(s) /\ Char(s, i) = "-"
        d0 == IF neg THEN i + 1 ELSE i
        hasInt == d0 <= Len(s) /\ Char(s, d0) \in DigitChars
        intEnd == IF Char(s, d0) = "0" THEN d0 + 1 ELSE SkipDigits(s, d0)
        hasFrac == /\ intEnd + 1 <= Len(s)
                   /\ Char(s, intEnd) = "."
                   /\ Char(s, intEnd + 1) \in DigitChars
        fracEnd == IF hasFrac THEN SkipDigits(s, intEnd + 1) ELSE intEnd
        isE == fracEnd <= Len(s) /\ Char(s, fracEnd) \in {"e", "E"}
        signed == isE /\ fracEnd + 1 <= Len(s) /\ Char(s, fracEnd + 1) \in {"-", "+"}
        e0 == IF signed THEN fracEnd + 2 ELSE fracEnd + 1
        hasExp == isE /\ e0 <= Len(s) /\ Char(s, e0) \in DigitChars
        expEnd == IF hasExp THEN SkipDigits(s, e0) ELSE fracEnd
        magnitude == DigitsValue(s, d0, intEnd, 0)
    IN  IF ~hasInt THEN ScanFail
        ELSE IF hasFrac \/ hasExp THEN ScanOk(PyFloat(SubSeq(s, i, expEnd - 1)), expEnd)
        ELSE ScanOk(PyInt(IF neg THEN 0 - magnitude ELSE magnitude), intEnd)

LiteralAt(s, i, lit) == i + Len(lit) - 1 <= Len(s) /\ SubSeq(s, i, i + Len(lit) - 1) = lit

RECURSIVE ScanOnce(_, _)
RECURSIVE ScanObjectPairs(_, _, _)
RECURSIVE ScanArrayItems(_, _, _)

\* JSONObject's loop: i is at the opening quote of the next key, d holds the
\* pairs read so far (a repeated key keeps its last value)
ScanObjectPairs(s, i, d) ==
    LET key == ScanString(s, i + 1, "")
        colon == SkipWhitespace(s, key.next)
        value == ScanOnce(s, SkipWhitespace(s, colon + 1))
        after == SkipWhitespace(s, value.next)
        pairs == (key.val.str :> value.val) @@ d
        nextKey == SkipWhitespace(s, after + 1)
    IN  IF ~key.ok THEN ScanFail
        ELSE IF colon > Len(s) \/ Char(s, colon) # ":" THEN ScanFail
        ELSE IF ~value.ok THEN ScanFail
        ELSE IF after > Len(s) THEN ScanFail
        ELSE IF Char(s, after) = "}" THEN ScanOk(PyDict(pairs), after + 1)
        ELSE IF Char(s, after) # "," THEN ScanFail
        ELSE IF nextKey > Len(s) \/ Char(s, nextKey) # "\"" THEN ScanFail
        ELSE ScanObjectPairs(s, nextKey, pairs)

\* JSONArray's loop: i is at the start of the next item
ScanArrayItems(s, i, items) ==
    LET value == ScanOnce(s, i)
        after == SkipWhitespace(s, value.next)
        values == Append(items, value.val)
    IN  IF ~value.ok THEN ScanFail
        ELSE IF after > Len(s) THEN ScanFail
        ELSE IF Char(s, after) = "]" THEN ScanOk(PyList(values), after + 1)
        ELSE IF Char(s, after) # "," THEN ScanFail
        ELSE ScanArrayItems(s, SkipWhitespace(s, after + 1), values)

\* scanner.py_make_scanner._scan_once
ScanOnce(s, i) ==
    IF i > Len(s) THEN ScanFail
    ELSE IF Char(s, i) = "\"" THEN ScanString(s, i + 1, "")
    ELSE IF Char(s, i) = "{" THEN
        LET first == SkipWhitespace(s, i + 1)
        IN  IF first > Len(s) THEN ScanFail
            ELSE IF Char(s, first) = "}" THEN ScanOk(PyDict(EmptyDict), first + 1)
            ELSE IF Char(s, first) # "\"" THEN ScanFail
            ELSE ScanObjectPairs(s, first, EmptyDict)
    ELSE IF Char(s, i) = "[" THEN
        LET first == SkipWhitespace(s, i + 1)
        IN  IF first <= Len(s) /\ Char(s, first) = "]" THEN ScanOk(PyList(<<>>), first + 1)
            ELSE ScanArrayItems(s, first, <<>>)
    ELSE IF LiteralAt(s, i, "null") THEN ScanOk(PyNone, i + 4)
    ELSE IF LiteralAt(s, i, "true") THEN ScanOk(PyBool(TRUE), i + 4)
    ELSE IF LiteralAt(s, i, "false") THEN ScanOk(PyBool(FALSE), i + 5)
    ELSE IF ScanNumber(s, i).ok THEN ScanNumber(s, i)
    ELSE IF LiteralAt(s, i, "NaN") THEN ScanOk(PyFloat("NaN"), i + 3)
    ELSE IF LiteralAt(s, i, "Infinity") THEN ScanOk(PyFloat("Infinity"), i + 8)
    ELSE IF LiteralAt(s, i, "-Infinity") THEN ScanOk(PyFloat("-Infinity"), i + 9)
    ELSE ScanFail

\* JSONDecoder.decode: one value, whitespace around it, nothing else; ok is
\* FALSE where json.loads raises JSONDecodeError
json_loads(s) ==
    LET scanned == ScanOnce(s, SkipWhitespace(s, 1))
    IN  IF scanned.ok /\ SkipWhitespace(s, scanned.next) = Len(s) + 1
        THEN scanned
        ELSE ScanFail

(***************************************************************************)
(* Bounds of the model and the inputs it draws                             *)
(***************************************************************************)
\* the clock runs from 2024-12-30 to MaxDay days later
MaxDay == 2
\* the user selects at most MaxThemes themes
MaxThemes == 2

Fence == Backtick \o Backtick \o Backtick
JsonFence == Fence \o "json"

(***************************************************************************)
(* datetime.now().strftime                                                 *)
(***************************************************************************)
\* datetime.now() on day n of the clock: 2024-12-30 was a Monday
Now(n) ==
    IF n <= 1
    THEN [year |-> 2024, month |-> 12, day |-> 30 + n, weekday |-> n % 7]
    ELSE [year |-> 2025, month |-> 1, day |-> n - 1, weekday |-> n % 7]

DigitChar(d) == Char("0123456789", d + 1)

\* n in decimal, zero-padded to width digits (%Y, %m, %d)
RECURSIVE ZeroPad(_, _)
ZeroPad(n, width) ==
    IF width = 0 THEN "" ELSE ZeroPad(n \div 10, width - 1) \o DigitChar(n % 10)

WeekdayNames ==
    <<"Monday", "Tuesday", "Wednesday", "Thursday", "Friday", "Saturday", "Sunday">>

\* strftime("%Y-%m-%d")
strftime_Ymd(now) ==
    ZeroPad(now.year, 4) \o "-" \o ZeroPad(now.month, 2) \o "-" \o ZeroPad(now.day, 2)

\* strftime("%A")
strftime_A(now) == WeekdayNames[now.weekday + 1]

(***************************************************************************)
(* get_spiritual_content                                                   *)
(***************************************************************************)
\* lines 52-54
GenericPrompt(day, date) ==
    "\n    Generate comprehensive spiritual content for a general Christian audience for "
    \o day \o ", " \o date \o ".\n    "

\* lines 56-60
PersonalizedPrompt(denomination, bible_version, themes, day, date) ==
    "\n        Generate comprehensive spiritual content for a "
    \o PyOr(denomination, PyStr("general")).str
    \o " Christian \n        using "
    \o PyOr(bible_version, PyStr("a standard Bible version")).str
    \o ", focusing on themes: "
    \o Join(", ", PyOr(themes, PyList(<<PyStr("general spirituality")>>)).list)
    \o ".\n        Ensure it is aligned with " \o day \o ", " \o date \o ".\n        "

\* a slip in line 55: `and` for `or`
BuildPrompt_AllRequired(denomination, bible_version, themes, day, date) ==
    IF Truthy(denomination) /\ Truthy(bible_version) /\ Truthy(themes)
    THEN PersonalizedPrompt(denomination, bible_version, themes, day, date)
    ELSE GenericPrompt(day, date)

\* lines 51-60: the prompt for the three arguments
BuildPrompt(denomination, bible_version, themes, day, date) ==
    IF Truthy(denomination) \/ Truthy(bible_version) \/ Truthy(themes)
    THEN PersonalizedPrompt(denomination, bible_version, themes, day, date)
    ELSE GenericPrompt(day, date)

\* lines 74-76: the hardcoded texts of the fallback record
FallbackVerse ==
    "Proverbs 3:5-6 - Trust in the Lord with all your heart and lean not on your own understanding."
FallbackDevotional ==
    "In times of uncertainty, remember that faith is your anchor. Reflect on God's unwavering love and guidance."
FallbackPrayer ==
    "Heavenly Father, guide my steps and fill my heart with your peace today."

\* a slip in line 77: the insight names the weekday and leaves the date out
FallbackContent_NoDate(day, date) ==
    PyDict([
        daily_verse |-> PyStr(FallbackVerse),
        daily_devotional |-> PyStr(FallbackDevotional),
        prayer_guide |-> PyStr(FallbackPrayer),
        religious_insight |-> PyStr("Today is " \o day
            \o ". We are reminded of the significance of steadfast faith in navigating life's challenges.")])

\* lines 73-78: the record returned when decoding raises
FallbackContent(day, date) ==
    PyDict([
        daily_verse |-> PyStr(FallbackVerse),
        daily_devotional |-> PyStr(FallbackDevotional),
        prayer_guide |-> PyStr(FallbackPrayer),
        religious_insight |-> PyStr("Today is " \o day \o ", " \o date
            \o ". We are reminded of the significance of steadfast faith in navigating life's challenges.")])

\* a slip in line 68: the slice is one character short and leaves the tag's "n"
StripOpeningFence_OffByOne(text) ==
    IF StartsWith(text, JsonFence) THEN SliceFrom(text, 6) ELSE text

\* a slip in lines 67-68: the slice is taken whatever the text starts with
StripOpeningFence_Unconditional(text) == SliceFrom(text, 7)

\* lines 67-68
StripOpeningFence(text) == IF StartsWith(text, JsonFence) THEN SliceFrom(text, 7) ELSE text

\* lines 69-70
StripClosingFence(text) == IF EndsWith(text, Fence) THEN SliceDropLast(text, 3) ELSE text

\* lines 65-78: a response is its list of parts' texts; parts[0] of an empty list
\* raises IndexError and json.loads raises JSONDecodeError, both caught
ParseResponse(resp, day, date) ==
    IF Len(resp.parts) = 0 THEN FallbackContent(day, date)
    ELSE LET decoded == json_loads(StripClosingFence(StripOpeningFence(Strip(resp.parts[1]))))
         IN  IF decoded.ok THEN decoded.val ELSE FallbackContent(day, date)

(***************************************************************************)
(* The Preference Store                                                    *)
(***************************************************************************)
Preferences(denomination, bible_version, themes) ==
    PyDict([denomination |-> denomination, bible_version |-> bible_version, themes |-> themes])

\* a slip in line 83: the stored value is never read
load_preferences_Default(state) == Preferences(PyNone, PyNone, PyNone)

\* line 83
load_preferences(state) ==
    DictGet(state, "preferences", Preferences(PyNone, PyNone, PyNone))

\* a slip in line 87: the new value is merged into the stored one, whose fields
\* survive where the new ones are empty
save_preferences_Merge(state, prefs) ==
    LET old == DictGet(state, "preferences", prefs)
        merged == PyDict([k \in DOMAIN prefs.dict |-> PyOr(prefs.dict[k], old.dict[k])])
    IN  [k \in DOMAIN state \cup {"preferences"} |->
            IF k = "preferences" THEN merged ELSE state[k]]

\* line 87: the session state after st.session_state["preferences"] = prefs
save_preferences(state, prefs) ==
    [k \in DOMAIN state \cup {"preferences"} |-> IF k = "preferences" THEN prefs ELSE state[k]]

(***************************************************************************)
(* The sidebar's widgets                                                   *)
(***************************************************************************)
\* lines 131-135
DenominationOptions ==
    <<"Catholic", "Baptist", "Methodist", "Lutheran", "Presbyterian", "Pentecostal",
      "Non-denominational", "Orthodox", "Anglican", "Other">>

\* lines 148-154
BibleVersionOptions ==
    <<"New International Version (NIV)", "King James Version (KJV)",
      "English Standard Version (ESV)", "New Living Translation (NLT)",
      "New American Standard Bible (NASB)", "The Message (MSG)", "Other">>

\* lines 171-175
ThemeOptions ==
    <<"Strength", "Gratitude", "Forgiveness", "Love", "Hope", "Peace", "Courage", "Wisdom",
      "Joy", "Patience", "Humility", "Compassion", "Faith", "Mindfulness", "Purpose",
      "Healing", "Unity", "Growth", "Generosity", "Resilience">>

Range(q) == {q[i] : i \in DOMAIN q}

\* lines 136-139, 156-162: the index argument; ok is FALSE where list.index raises
\* ValueError
DefaultIndex(options, stored) ==
    IF ~Truthy(stored) THEN [ok |-> TRUE, index |-> 0]
    ELSE IF \E i \in DOMAIN options : options[i] = stored.str
    THEN [ok |-> TRUE,
          index |-> (CHOOSE i \in DOMAIN options :
                        /\ options[i] = stored.str
                        /\ \A j \in 1..(i - 1) : options[j] # stored.str) - 1]
    ELSE [ok |-> FALSE, index |-> 0]

\* what the user does with the widgets of one run: the options picked, the texts
\* typed into the "Other" inputs, the themes picked (in the order picked) and
\* whether the button is pressed
DenominationPicks == Range(DenominationOptions) \cap {"Catholic", "Other"}
BibleVersionPicks == Range(BibleVersionOptions) \cap {"New International Version (NIV)", "Other"}
DenominationTexts == {"", "Quaker"}
BibleVersionTexts == {"", "Geneva Bible"}
ThemePicks == Range(ThemeOptions) \cap {"Hope", "Peace"}

ThemeSelections ==
    {q \in UNION {[1..n -> ThemePicks] : n \in 0..MaxThemes} :
        \A i, j \in DOMAIN q : i # j => q[i] # q[j]}

PyStrList(q) == PyList([i \in DOMAIN q |-> PyStr(q[i])])

(***************************************************************************)
(* The responses of the generative API                                     *)
(***************************************************************************)
\* the keys of base_prompt (lines 19-22)
FourKeys == {"daily_verse", "daily_devotional", "prayer_guide", "religious_insight"}

\* the scenario of the specification
FullBody ==
    "{\"daily_verse\":\"John 3:16\",\"daily_devotional\":\"God loves\",\"prayer_guide\":\"Thank you\",\"religious_insight\":\"Grace\"}"

\* the four keys, laid out over lines, with an escaped quote and an escaped newline
PrettyBody ==
    "{\n  \"daily_verse\": \"Psalm 23:1 - \\\"The Lord is my shepherd\\\"\",\n  \"daily_devotional\": \"Rest.\\nTrust.\",\n  \"prayer_guide\": \"Lead me\",\n  \"religious_insight\": \"Advent\"\n}"

\* five keys: the four and one more
ExtraKeyBody ==
    "{\"daily_verse\":\"John 3:16\",\"daily_devotional\":\"God loves\",\"prayer_guide\":\"Thank you\",\"religious_insight\":\"Grace\",\"note\":1}"

\* all four keys, one value not a string
NonStringValueBody ==
    "{\"daily_verse\":[\"John 3:16\"],\"daily_devotional\":\"God loves\",\"prayer_guide\":null,\"religious_insight\":\"Grace\"}"

\* valid JSON objects with fewer keys
PartialBodies ==
    {"{\"daily_verse\":\"John 3:16\",\"prayer_guide\":\"Thank you\"}", "{}"}

\* valid JSON that is not an object
NonObjectBodies == {"[\"John 3:16\"]", "\"Grace\"", "42", "null"}

\* not JSON: truncated, prose, prose around JSON, empty
InvalidBodies ==
    {"{\"daily_verse\":\"John 3:16\",\"daily_devotional\":\"God lov",
     "not json at all",
     "Here is your content: {\"daily_verse\":\"John 3:16\"}",
     "{\"daily_verse\":\"John 3:16\"} Enjoy!",
     ""}

\* every four-key record whose values are drawn from FieldTexts, serialized
FieldTexts == {"", "Amen"}
FourKeyRecords == [FourKeys -> FieldTexts]
Serialized(r) ==
    "{\"daily_verse\":\"" \o r["daily_verse"]
    \o "\",\"daily_devotional\":\"" \o r["daily_devotional"]
    \o "\",\"prayer_guide\":\"" \o r["prayer_guide"]
    \o "\",\"religious_insight\":\"" \o r["religious_insight"] \o "\"}"

SerializedBodies == {Serialized(r) : r \in FourKeyRecords}

JsonBodies ==
    {FullBody, PrettyBody, ExtraKeyBody, NonStringValueBody} \cup PartialBodies
    \cup NonObjectBodies

Bodies == JsonBodies \cup InvalidBodies

\* the body as it is, between whitespace, in a json fence, in a bare fence
Bare(body) == body
Padded(body) == " \n" \o body \o "\n\t "
JsonFenced(body) == JsonFence \o "\n" \o body \o "\n" \o Fence
BareFenced(body) == Fence \o "\n" \o body \o "\n" \o Fence

\* every body in every wrapping; the serialized records unfenced only
Texts ==
    {Bare(b) : b \in Bodies \cup SerializedBodies}
    \cup {Padded(b) : b \in Bodies \cup SerializedBodies}
    \cup {JsonFenced(b) : b \in Bodies} \cup {BareFenced(b) : b \in Bodies}

\* what generate_content returns: a response with one text part, or with no part
Responses == {[parts |-> <<t>>] : t \in Texts} \cup {[parts |-> <<>>]}

(***************************************************************************)
(* main(): one script run, step by step                                    *)
(***************************************************************************)
NoValue == PyNone

Init ==
    /\ api_key = NoValue
    /\ session_state = EmptyDict
    /\ clock = 0
    /\ pc = "start"
    /\ error = "none"
    /\ preferences = NoValue
    /\ current_date = ""
    /\ current_day = ""
    /\ prompt = ""
    /\ response = NoValue
    /\ content = NoValue
    /\ page = <<>>
    /\ sidebar = [controls |-> FALSE, success |-> FALSE]
    /\ last_saved = NoValue

\* the run ends with an exception: Streamlit shows it under what was rendered
Abort(exception) ==
    /\ pc' = "aborted"
    /\ error' = exception
    /\ preferences' = NoValue
    /\ current_date' = ""
    /\ current_day' = ""
    /\ prompt' = ""
    /\ response' = NoValue
    /\ content' = NoValue

\* the system clock runs on, whatever the script is doing
Tick ==
    /\ clock < MaxDay
    /\ clock' = clock + 1
    /\ UNCHANGED <<api_key, session_state, pc, error, preferences, current_date, current_day,
                   prompt, response, content, page, sidebar, last_saved>>

\* what the environment may hold for GEMINI_API_KEY when a run reads it
ApiKeys == {PyNone, PyStr("key")}

\* lines 8-42 and 92-96: Streamlit executes the whole script again for every run,
\* which reads the API key from the environment, starts on an empty page and
\* loads the preferences
StartRun ==
    /\ pc \in {"start", "done", "aborted"}
    /\ api_key' \in ApiKeys
    /\ pc' = "loaded"
    /\ error' = "none"
    /\ page' = <<>>
    /\ sidebar' = [controls |-> FALSE, success |-> FALSE]
    /\ preferences' = load_preferences(session_state)
    /\ UNCHANGED <<session_state, clock, current_date, current_day, prompt,
                   response, content, last_saved>>

\* lines 47-60: the date is read, then the weekday (time may pass before and
\* between the two reads), then the prompt is built from main's arguments
\* (lines 100-102)
ConstructPrompt ==
    /\ pc = "loaded"
    /\ \E first \in clock..MaxDay :
        \E later \in first..MaxDay :
            /\ clock' = later
            /\ current_date' = strftime_Ymd(Now(first))
            /\ current_day' = strftime_A(Now(later))
            /\ prompt' = BuildPrompt(DictGet(preferences.dict, "denomination", PyNone),
                                     DictGet(preferences.dict, "bible_version", PyNone),
                                     DictGet(preferences.dict, "themes", PyNone),
                                     strftime_A(Now(later)), strftime_Ymd(Now(first)))
    /\ pc' = "prompted"
    /\ UNCHANGED <<api_key, session_state, error, preferences, response, content, page,
                   sidebar, last_saved>>

\* line 62: the blocking call returns a response, some time later.  Whether a
\* call without GEMINI_API_KEY can succeed is the client library's matter
\* (genai.configure looks for other credentials): the script has no test of it
GenerateContent ==
    /\ pc = "prompted"
    /\ response' \in Responses
    /\ clock' \in clock..MaxDay
    /\ pc' = "responded"
    /\ UNCHANGED <<api_key, session_state, error, preferences, current_date,
                   current_day, prompt, content, page, sidebar, last_saved>>

\* line 62: the call raises (no or bad key, network, quota); nothing catches it
GenerateContentFails ==
    /\ pc = "prompted"
    /\ clock' \in clock..MaxDay
    /\ Abort("APIError")
    /\ UNCHANGED <<api_key, session_state, page, sidebar, last_saved>>

\* lines 64-78 and the assignment of line 99
ParseAndReturn ==
    /\ pc = "responded"
    /\ content' = ParseResponse(response, current_day, current_date)
    /\ pc' = "parsed"
    /\ UNCHANGED <<api_key, session_state, clock, error, preferences, current_date,
                   current_day, prompt, response, page, sidebar, last_saved>>

\* lines 105-116: the four st.write calls, each with its default
DisplayedFields(record) ==
    <<DictGet(record, "daily_verse", PyStr("No verse available today.")),
      DictGet(record, "daily_devotional", PyStr("Today's devotional could not be generated.")),
      DictGet(record, "prayer_guide", PyStr("A simple prayer for guidance.")),
      DictGet(record, "religious_insight", PyStr("Each day is a gift from God."))>>

\* lines 105-116; content.get raises AttributeError when content is not a dict
DisplayContent ==
    /\ pc = "parsed"
    /\ IF IsDict(content)
       THEN /\ page' = DisplayedFields(content.dict)
            /\ pc' = "displayed"
            /\ current_date' = ""
            /\ current_day' = ""
            /\ prompt' = ""
            /\ response' = NoValue
            /\ UNCHANGED <<error, preferences, content>>
       ELSE /\ Abort("AttributeError")
            /\ UNCHANGED page
    /\ UNCHANGED <<api_key, session_state, clock, sidebar, last_saved>>

\* lines 125-183: the three widgets, then the button; the run ends.  The stored
\* themes, the multiselect's default, are options: only the multiselect yields them
RenderSidebar ==
    /\ pc = "displayed"
    /\ LET stored_d == DictGet(preferences.dict, "denomination", PyNone)
           stored_v == DictGet(preferences.dict, "bible_version", PyNone)
       IN  IF ~DefaultIndex(DenominationOptions, stored_d).ok
              \/ ~DefaultIndex(BibleVersionOptions, stored_v).ok
           THEN /\ Abort("ValueError")
                /\ UNCHANGED <<session_state, sidebar, last_saved>>
           ELSE \E pick_d \in DenominationPicks, pick_v \in BibleVersionPicks,
                   text_d \in DenominationTexts \cup {PyOr(stored_d, PyStr("")).str},
                   text_v \in BibleVersionTexts \cup {PyOr(stored_v, PyStr("")).str},
                   picked_t \in ThemeSelections, clicked \in BOOLEAN :
                LET denomination == IF pick_d = "Other" THEN text_d ELSE pick_d
                    bible_version == IF pick_v = "Other" THEN text_v ELSE pick_v
                    saved == Preferences(PyStr(denomination), PyStr(bible_version),
                                         PyStrList(picked_t))
                IN  /\ sidebar' = [controls |-> TRUE, success |-> clicked]
                    /\ IF clicked
                       THEN /\ session_state' = save_preferences(session_state, saved)
                            /\ last_saved' = saved
                       ELSE UNCHANGED <<session_state, last_saved>>
                    /\ pc' = "done"
                    /\ preferences' = NoValue
                    /\ content' = NoValue
                    /\ UNCHANGED <<error, current_date, current_day, prompt, response>>
    /\ UNCHANGED <<api_key, clock, page>>

Next ==
    \/ Tick
    \/ StartRun
    \/ ConstructPrompt
    \/ GenerateContent
    \/ GenerateContentFails
    \/ ParseAndReturn
    \/ DisplayContent
    \/ RenderSidebar

Spec == Init /\ [][Next]_vars

(***************************************************************************)
(* Properties                                                              *)
(***************************************************************************)
\* the arguments main passes to get_spiritual_content (lines 100-102)
ArgsOf(prefs) ==
    [denomination |-> DictGet(prefs.dict, "denomination", PyNone),
     bible_version |-> DictGet(prefs.dict, "bible_version", PyNone),
     themes |-> DictGet(prefs.dict, "themes", PyNone)]

\* the text of the response being decoded is one of the given texts
ResponseTextIn(texts) == Len(response.parts) > 0 /\ response.parts[1] \in texts

AsContent(r) == PyDict([k \in DOMAIN r |-> PyStr(r[k])])

FullRecord ==
    [daily_verse |-> "John 3:16", daily_devotional |-> "God loves",
     prayer_guide |-> "Thank you", religious_insight |-> "Grace"]

PrettyRecord ==
    [daily_verse |-> "Psalm 23:1 - \"The Lord is my shepherd\"",
     daily_devotional |-> "Rest.\nTrust.",
     prayer_guide |-> "Lead me", religious_insight |-> "Advent"]

\* the fallback record as the specification describes it, for the weekday and
\* the date the request has read
ExpectedFallback ==
    PyDict([
        daily_verse |-> PyStr(FallbackVerse),
        daily_devotional |-> PyStr(FallbackDevotional),
        prayer_guide |-> PyStr(FallbackPrayer),
        religious_insight |-> PyStr("Today is " \o current_day \o ", " \o current_date
            \o ". We are reminded of the significance of steadfast faith in navigating life's challenges.")])

\* C1: the record get_spiritual_content returns to main always holds the four
\* fields daily_verse, daily_devotional, prayer_guide and religious_insight
\* (a decoded text lacking one is replaced by the fallback record).
C1_ContentHasFourFields ==
    pc = "parsed" => IsDict(content) /\ FourKeys \subseteq DOMAIN content.dict

\* C2: a response text that is a JSON object with exactly the four keys, alone or
\* between whitespace, is returned as the record of exactly its four values, and
\* not as the fallback record.
C2_FourKeyObjectReturnedVerbatim ==
    pc = "parsed" =>
        /\ \A r \in FourKeyRecords :
              ResponseTextIn({Bare(Serialized(r)), Padded(Serialized(r))})
                  => content = AsContent(r) /\ content # ExpectedFallback
        /\ ResponseTextIn({Bare(FullBody), Padded(FullBody)})
              => content = AsContent(FullRecord) /\ content # ExpectedFallback
        /\ ResponseTextIn({Bare(PrettyBody), Padded(PrettyBody)})
              => content = AsContent(PrettyRecord) /\ content # ExpectedFallback

C2_Witness ==
    /\ pc = "parsed"
    /\ ResponseTextIn({Padded(PrettyBody)})
    /\ content = AsContent(PrettyRecord)

\* C3: a response with no parts, or whose text is not JSON (truncated, prose,
\* prose around JSON, empty; alone, between whitespace or fenced), raises nothing
\* and yields the fallback record: the three hardcoded texts and the insight
\* holding the date the request has read from the clock and the weekday it has
\* read next, on that day or a later one, neither after the present.
C3_InvalidJsonYieldsFallback ==
    (/\ pc = "parsed"
     /\ \/ Len(response.parts) = 0
        \/ \E b \in InvalidBodies :
              ResponseTextIn({Bare(b), Padded(b), JsonFenced(b), BareFenced(b)}))
    => /\ error = "none"
       /\ content = ExpectedFallback
       /\ \E d \in 0..clock :
             \E e \in d..clock :
                 /\ current_date = strftime_Ymd(Now(d))
                 /\ current_day = strftime_A(Now(e))

C3_Witness ==
    /\ pc = "parsed"
    /\ ResponseTextIn({"not json at all"})
    /\ content.dict["religious_insight"] = PyStr("Today is Tuesday, 2024-12-31. We are reminded of the significance of steadfast faith in navigating life's challenges.")

\* C4: for every JSON body B, the text made of the json fence marker, a newline,
\* B, a newline and the closing fence decodes to the record B alone decodes to.
C4_JsonFenceTransparent ==
    pc = "parsed" =>
        \A b \in JsonBodies :
            ResponseTextIn({JsonFenced(b)})
                => content = ParseResponse([parts |-> <<Bare(b)>>], current_day, current_date)

C4_Witness ==
    /\ pc = "parsed"
    /\ ResponseTextIn({JsonFenced(FullBody)})
    /\ content = AsContent(FullRecord)

\* C5: once a save has happened, load_preferences returns exactly the value of
\* the latest save_preferences call, all three fields as saved, in every later
\* state and at the load that opens every later run.
C5_LoadReturnsLastSaved ==
    last_saved # NoValue =>
        /\ load_preferences(session_state) = last_saved
        /\ pc = "loaded" => preferences = last_saved

C5_Witness ==
    /\ pc = "loaded"
    /\ last_saved # NoValue
    /\ preferences = Preferences(PyStr("Quaker"), PyStr(""), PyStrList(<<"Peace", "Hope">>))

\* a field is set when it is neither None nor empty
IsSet(v) == v \notin {PyNone, PyStr(""), PyList(<<>>)}

\* C6: the generic prompt is built exactly when none of denomination, bible_version
\* and themes is set; otherwise the personalized prompt holds every set field
\* verbatim (the themes joined by ", ") and the default text of every unset field.
C6_PromptSelection ==
    pc = "prompted" =>
        LET a == ArgsOf(preferences)
            noneSet == ~IsSet(a.denomination) /\ ~IsSet(a.bible_version) /\ ~IsSet(a.themes)
            d == IF IsSet(a.denomination) THEN a.denomination.str ELSE "general"
            v == IF IsSet(a.bible_version) THEN a.bible_version.str
                 ELSE "a standard Bible version"
            t == IF IsSet(a.themes) THEN Join(", ", a.themes.list) ELSE "general spirituality"
            generic == Contains(prompt, "content for a general Christian audience for "
                                        \o current_day \o ", " \o current_date \o ".")
        IN  /\ generic <=> noneSet
            /\ ~noneSet =>
                  /\ Contains(prompt, "content for a " \o d \o " Christian ")
                  /\ Contains(prompt, "using " \o v \o ", focusing on themes: " \o t \o ".")
                  /\ Contains(prompt, "aligned with " \o current_day \o ", " \o current_date \o ".")

C6_Witness ==
    /\ pc = "prompted"
    /\ ArgsOf(preferences).denomination = PyStr("")
    /\ ArgsOf(preferences).bible_version = PyStr("Geneva Bible")
    /\ Contains(prompt, "for a general Christian \n        using Geneva Bible, focusing on themes: Hope, Peace.")

\* C7: a failed API call does not abort the run: the run goes on with the
\* fallback record.
C7_ApiFailureFallsBack == ~(pc = "aborted" /\ error = "APIError")

\* C8: a text made of the bare fence marker, a newline, a JSON body B, a newline
\* and the closing fence decodes to the record B alone decodes to.
C8_BareFenceTransparent ==
    pc = "parsed" =>
        \A b \in JsonBodies :
            ResponseTextIn({BareFenced(b)})
                => content = ParseResponse([parts |-> <<Bare(b)>>], current_day, current_date)

\* the stored preferences hold a free text: a denomination or a Bible version
\* that is not one of the options
FreeTextStored ==
    /\ last_saved # NoValue
    /\ \/ last_saved.dict["denomination"].str \notin Range(DenominationOptions)
       \/ last_saved.dict["bible_version"].str \notin Range(BibleVersionOptions)

\* C9: after a save of a free-text denomination or Bible version, no run is ended
\* by an error of the preference controls.
C9_FreeTextRunsComplete == FreeTextStored => ~(pc = "aborted" /\ error = "ValueError")

\* the stored preferences as the session state holds them
Stored(state) ==
    IF "preferences" \in DOMAIN state THEN state["preferences"]
    ELSE Preferences(PyNone, PyNone, PyNone)

\* C10: the prompt of a run is built from the preferences stored when the run
\* starts, which are those of the latest save if there is one; the step that
\* saves changes nothing of the content displayed in its run; and the stored
\* preferences change only in a sidebar step whose button is pressed.
C10_Step ==
    /\ (pc = "loaded" /\ pc' = "prompted") =>
          /\ prompt' = BuildPrompt(ArgsOf(Stored(session_state)).denomination,
                                   ArgsOf(Stored(session_state)).bible_version,
                                   ArgsOf(Stored(session_state)).themes,
                                   current_day', current_date')
          /\ last_saved # NoValue => Stored(session_state) = last_saved
    /\ pc = "displayed" => page' = page
    /\ (pc # "displayed" \/ ~sidebar'.success) => session_state' = session_state

\* C10: every step keeps the ordering of save and generation stated above.
C10_SaveOrdering == [][C10_Step]_vars

C10_Witness ==
    /\ pc = "prompted"
    /\ last_saved = Preferences(PyStr("Quaker"), PyStr("New International Version (NIV)"),
                                PyStrList(<<"Hope">>))
    /\ Contains(prompt, "for a Quaker Christian \n        using New International Version (NIV), focusing on themes: Hope.")
====
